---- MODULE Spec2Model ----
(***************************************************************************)
(* Model of the tekton-pipelines operand of the SSP operator               *)
(* (internal/operands/tekton-pipelines/tekton-pipelines.go).               *)
(*                                                                         *)
(* The operand keeps the five object slices of the loaded tekton bundle    *)
(* and reconciles them against the cluster.  The reconcile functions are   *)
(* closures holding POINTERS into those slices (p := &pipelines[i]), so a  *)
(* write such as p.Namespace = ... is a write to the operand's own slice.  *)
(* The model therefore keeps the slices as state (tektonPipelines) next to *)
(* the bundle as it was loaded (Bundle).                                   *)
(***************************************************************************)
EXTENDS Integers, Sequences, FiniteSets, TLC

(***************************************************************************)
(* Bounds of the model.                                                    *)
(***************************************************************************)
MaxOps == 2

(***************************************************************************)
(* Program constants.                                                      *)
(***************************************************************************)
operandName == "tekton-pipelines"
operandComponent == "AppComponentTektonPipelines"
tektonCrd == "tasks.tekton.dev"
virtioPrefix == "virtioContainer"
pipelineSaName == "pipeline"

\* strings.HasPrefix
HasPrefix(s, prefix) ==
    /\ Len(s) >= Len(prefix)
    /\ SubSeq(s, 1, Len(prefix)) = prefix

\* namespaceRegex.MatchString for the pattern ^(openshift|kube)-
namespaceRegexMatchString(s) ==
    \/ HasPrefix(s, "openshift-")
    \/ HasPrefix(s, "kube-")

\* common.GetOperatorVersion and common.GetVirtioImage read the process
\* environment; both are fixed for the lifetime of the process.
GetOperatorVersion == "1.3.0"
GetVirtioImage == "virtio-image"

(***************************************************************************)
(* Objects.  Every kind uses the same record shape; Subjects is used by    *)
(* role bindings and Params by pipelines only, Data is the rest of the     *)
(* object's body.                                                          *)
(***************************************************************************)
ParamValue(s) == [Type |-> "string", StringVal |-> s]

Object(kind, name, namespace, subjects, params) ==
    [Kind |-> kind, Name |-> name, Namespace |-> namespace, Labels |-> {},
     Subjects |-> subjects, Params |-> params, Data |-> "bundle"]

\* The tekton bundle as loaded at process start: one object of each kind.
\* The role binding either leaves its namespace to the request or pins it,
\* and the service account is either the reserved "pipeline" account or not.
BundleOf(roleBinding, serviceAccount) ==
    [Pipelines |-> <<
        Object("Pipeline", "windows-installer", "p-ns", <<>>,
               << [Name |-> "virtioContainerDiskName", Default |-> ParamValue("static-image")],
                  [Name |-> "winImageUrl", Default |-> ParamValue("url")] >>) >>,
     ConfigMaps |-> <<
        Object("ConfigMap", "windows-config", "cm-ns", <<>>, <<>>) >>,
     RoleBindings |-> << roleBinding >>,
     ServiceAccounts |-> << serviceAccount >>,
     ClusterRoles |-> <<
        Object("ClusterRole", "pipeline-role", "", <<>>, <<>>) >>]

Bundles ==
    { BundleOf(Object("RoleBinding", "rb-default", "",
                      << [Name |-> "pipeline", Namespace |-> "subj-ns"] >>, <<>>),
               Object("ServiceAccount", "pipeline", "", <<>>, <<>>)),
      BundleOf(Object("RoleBinding", "rb-pinned", "rb-ns",
                      << [Name |-> "builder", Namespace |-> ""] >>, <<>>),
               Object("ServiceAccount", "builder", "sa-ns", <<>>, <<>>)) }

\* New: the operand's slices are the bundle's slices.
New(bundle) ==
    [pipelines |-> bundle.Pipelines,
     configMaps |-> bundle.ConfigMaps,
     roleBindings |-> bundle.RoleBindings,
     serviceAccounts |-> bundle.ServiceAccounts,
     clusterRoles |-> bundle.ClusterRoles]

(***************************************************************************)
(* Requests.  Spec.TektonPipelines is a pointer: <<>> is nil, <<r>> is set.*)
(***************************************************************************)
OverrideNamespaces == {"", "myapp", "openshift-myapp"}
InstanceNamespaces == {"kubevirt", "ssp-b"}
ObservedVersions == {"", "1.2.0", "1.3.0"}
Unread == "unread"

Requests ==
    [DeployTektonTaskResources : BOOLEAN,
     CrdExists : BOOLEAN,
     TektonPipelines : {<<>>} \cup {<<[Namespace |-> n]>> : n \in OverrideNamespaces},
     Namespace : InstanceNamespaces,
     ObservedVersion : {Unread}]

\* request.Instance.Spec.TektonPipelines != nil && ....Namespace != ""
HasOverride(request) ==
    /\ request.TektonPipelines /= <<>>
    /\ request.TektonPipelines[1].Namespace /= ""

OverrideOf(request) == request.TektonPipelines[1].Namespace

Procs == {"w1", "w2"}

VARIABLES
    loaded,           \* the bundle as it was loaded (never written)
    tektonPipelines,  \* the operand: the five slices it shares with the bundle
    cluster,          \* the set of live objects; Key is unique in it
    clusterBefore,    \* per worker: the cluster when its operation started
    pc,               \* per worker: "idle", "collect", "finish", "done", "cleaned"
    req,              \* per worker: the request of the pass in progress
    reconcileFunc,    \* per worker: the list of reconcile functions of the pass
    idx,              \* per worker: CollectResourceStatus' position in the list
    results,          \* per worker: the results collected / returned
    err,              \* per worker: the error returned ("" is nil)
    submitted,        \* per worker: the objects handed to CreateOrUpdate or Delete
    calls,            \* per worker: Cluster Gateway calls issued in the pass
    logged,           \* per worker: the log lines of the pass
    upgradingNow,     \* per worker: Reconcile's local of line 94; <<>> before it is set
    ops               \* operations and external edits so far

vars == <<loaded, tektonPipelines, cluster, clusterBefore, pc, req, reconcileFunc, idx, results, err,
          submitted, calls, logged, upgradingNow, ops>>

NoCalls == [crd |-> 0, get |-> 0, create |-> 0, update |-> 0, delete |-> 0, failed |-> 0]
NoRequest == [DeployTektonTaskResources |-> FALSE, CrdExists |-> FALSE,
              TektonPipelines |-> <<>>, Namespace |-> "", ObservedVersion |-> Unread]

(***************************************************************************)
(* The Cluster Gateway and the reconcile builder of internal/common.       *)
(***************************************************************************)
Key(o) == <<o.Kind, o.Namespace, o.Name>>

Found(c, key) == {o \in c : Key(o) = key}

Put(c, o) == (c \ Found(c, Key(o))) \cup {o}

\* WithAppLabels: the labels that mark an object as managed by the operand.
AppLabels(name, component) ==
    { <<"app.kubernetes.io/name", name>>,
      <<"app.kubernetes.io/component", component>>,
      <<"app.kubernetes.io/managed-by", "ssp-operator">> }

WithAppLabels(o, name, component) ==
    [o EXCEPT !.Labels = o.Labels \cup AppLabels(name, component)]

\* Lines 148-155: the default of every virtioContainer* parameter is replaced.
RewriteDefaults(params) ==
    [i \in 1..Len(params) |->
        IF HasPrefix(params[i].Name, virtioPrefix)
        THEN [params[i] EXCEPT !.Default = ParamValue(GetVirtioImage)]
        ELSE params[i]]

\* Variant: the bundle's static defaults are kept.
KeepBundleDefaults(newRes, foundRes) ==
    [newRes |-> newRes,
     foundRes |-> [foundRes EXCEPT !.Data = newRes.Data, !.Params = newRes.Params]]

\* The update function given to the builder for pipelines.  foundPipeline.Spec
\* = newPipeline.Spec copies the slice header of Spec.Params, so the writes to
\* foundPipeline.Spec.Params[i].Default go to the array both objects share:
\* the result is the pair of objects after the call.
UpdateFunc(newRes, foundRes) ==
    [newRes |-> [newRes EXCEPT !.Params = RewriteDefaults(newRes.Params)],
     foundRes |-> [foundRes EXCEPT !.Data = newRes.Data,
                                   !.Params = RewriteDefaults(newRes.Params)]]

\* The builder's update function for the other kinds: the body of the live
\* object is replaced by the body of the desired one.
DefaultUpdateFunc(newRes, foundRes) ==
    [newRes |-> newRes,
     foundRes |-> [foundRes EXCEPT !.Data = newRes.Data,
                                   !.Subjects = newRes.Subjects,
                                   !.Params = newRes.Params]]

Merge(newRes, foundRes) ==
    LET labelled == [foundRes EXCEPT !.Labels = foundRes.Labels \cup newRes.Labels]
    IN  IF newRes.Kind = "Pipeline"
        THEN UpdateFunc(newRes, labelled)
        ELSE DefaultUpdateFunc(newRes, labelled)

EmptyResource(o) ==
    [Kind |-> o.Kind, Name |-> o.Name, Namespace |-> o.Namespace, Labels |-> {},
     Subjects |-> <<>>, Params |-> <<>>, Data |-> ""]

GatewayOutcomes == {"ok", "getFails", "writeFails"}

\* common.CreateOrUpdate(request).ClusterResource(o).WithAppLabels(..).
\* UpdateFunc(..).Reconcile() on the cluster c, with the labels the closure
\* asked for and the gateway behaving as `outcome` says.  The result names
\* the cluster afterwards, the object o afterwards, the ReconcileResult, the
\* error and the gateway calls issued.
CreateOrUpdate(c, o, labels, outcome) ==
    LET desired == [o EXCEPT !.Labels = o.Labels \cup labels]
        live == Found(c, Key(o))
        existing == IF live = {} THEN EmptyResource(o) ELSE CHOOSE x \in live : TRUE
        merged == Merge(desired, existing)
        resource == [merged.newRes EXCEPT !.Labels = o.Labels]
        found == merged.foundRes
        failed(e, n) ==
            [cluster |-> c, resource |-> IF n = 0 THEN o ELSE resource,
             result |-> <<>>, err |-> e,
             get |-> 1, create |-> IF live = {} THEN n ELSE 0,
             update |-> IF live = {} THEN 0 ELSE n]
    IN  IF outcome = "getFails"
        THEN failed("get failed", 0)
        ELSE IF live /= {} /\ found = existing
        THEN [cluster |-> c, resource |-> resource,
              result |-> <<[Resource |-> found, OperationResult |-> "unchanged"]>>,
              err |-> "", get |-> 1, create |-> 0, update |-> 0]
        ELSE IF outcome = "writeFails"
        THEN failed("write failed", 1)
        ELSE [cluster |-> Put(c, found), resource |-> resource,
              result |-> <<[Resource |-> found,
                            OperationResult |-> IF live = {} THEN "created" ELSE "updated"]>>,
              err |-> "", get |-> 1,
              create |-> IF live = {} THEN 1 ELSE 0,
              update |-> IF live = {} THEN 0 ELSE 1]

(***************************************************************************)
(* The reconcile function factories.  A reconcile function is named by the *)
(* slice and the index of the element its closure points to.               *)
(***************************************************************************)
Func(kind, i) == [Kind |-> kind, i |-> i]

reconcileClusterRolesFuncs(crs) ==
    [i \in 1..Len(crs) |-> Func("ClusterRole", i)]

reconcileTektonPipelinesFuncs(pipelines) ==
    [i \in 1..Len(pipelines) |-> Func("Pipeline", i)]

reconcileConfigMapsFuncs(configMaps) ==
    [i \in 1..Len(configMaps) |-> Func("ConfigMap", i)]

reconcileRoleBindingsFuncs(rbs) ==
    [i \in 1..Len(rbs) |-> Func("RoleBinding", i)]

\* Variant: the account is skipped in the namespaces that match.
SkipInAdminNamespaces(r, sa) ==
    /\ HasOverride(r)
    /\ namespaceRegexMatchString(OverrideOf(r))
    /\ sa.Name = pipelineSaName

\* deploy pipeline SA only in `^(openshift|kube)-` namespaces
SkipServiceAccount(r, sa) ==
    /\ HasOverride(r)
    /\ ~namespaceRegexMatchString(OverrideOf(r))
    /\ sa.Name = pipelineSaName

RECURSIVE ServiceAccountsFrom(_, _, _)
ServiceAccountsFrom(r, sas, i) ==
    IF i > Len(sas) THEN <<>>
    ELSE IF SkipServiceAccount(r, sas[i])
    THEN ServiceAccountsFrom(r, sas, i + 1)
    ELSE <<Func("ServiceAccount", i)>> \o ServiceAccountsFrom(r, sas, i + 1)

reconcileServiceAccountsFuncs(r, sas) == ServiceAccountsFrom(r, sas, 1)

\* Variant: the role bindings come first.
ReconcileFuncsRoleBindingsFirst(t, request) ==
    reconcileRoleBindingsFuncs(t.roleBindings)
    \o reconcileClusterRolesFuncs(t.clusterRoles)
    \o reconcileTektonPipelinesFuncs(t.pipelines)
    \o reconcileConfigMapsFuncs(t.configMaps)
    \o reconcileServiceAccountsFuncs(request, t.serviceAccounts)

\* Variant: the configuration objects are left out of the list.
ReconcileFuncsWithoutConfigMaps(t, request) ==
    reconcileClusterRolesFuncs(t.clusterRoles)
    \o reconcileTektonPipelinesFuncs(t.pipelines)
    \o reconcileRoleBindingsFuncs(t.roleBindings)
    \o reconcileServiceAccountsFuncs(request, t.serviceAccounts)

\* The list Reconcile builds and hands to CollectResourceStatus.
ReconcileFuncs(t, request) ==
    reconcileClusterRolesFuncs(t.clusterRoles)
    \o reconcileTektonPipelinesFuncs(t.pipelines)
    \o reconcileConfigMapsFuncs(t.configMaps)
    \o reconcileRoleBindingsFuncs(t.roleBindings)
    \o reconcileServiceAccountsFuncs(request, t.serviceAccounts)

\* The slice element a reconcile function points to, and the operand after
\* the element is written.
Slice(kind) ==
    CASE kind = "Pipeline" -> "pipelines"
      [] kind = "ConfigMap" -> "configMaps"
      [] kind = "RoleBinding" -> "roleBindings"
      [] kind = "ServiceAccount" -> "serviceAccounts"
      [] kind = "ClusterRole" -> "clusterRoles"

Deref(t, f) == t[Slice(f.Kind)][f.i]

Store(t, f, o) == [t EXCEPT ![Slice(f.Kind)][f.i] = o]

\* The statements of each closure that precede its CreateOrUpdate call: the
\* element the closure points to, after them.
\* Variant: the override is applied only to an object without a namespace.
OverrideIfUnset(request, p) ==
    IF HasOverride(request) /\ p.Namespace = ""
    THEN [p EXCEPT !.Namespace = OverrideOf(request)]
    ELSE p

PipelineNamespace(request, p) ==
    IF HasOverride(request)
    THEN [p EXCEPT !.Namespace = OverrideOf(request)]
    ELSE p

ConfigMapNamespace(request, cm) ==
    IF HasOverride(request)
    THEN [cm EXCEPT !.Namespace = OverrideOf(request)]
    ELSE cm

ServiceAccountNamespace(request, sa) ==
    IF sa.Namespace = ""
    THEN [sa EXCEPT !.Namespace = request.Namespace]
    ELSE sa

RoleBindingNamespace(request, rb) ==
    [rb EXCEPT !.Namespace = IF rb.Namespace = "" THEN request.Namespace ELSE @,
               !.Subjects = [j \in 1..Len(rb.Subjects) |->
                               [rb.Subjects[j] EXCEPT !.Namespace = request.Namespace]]]

Prepare(request, f, o) ==
    CASE f.Kind = "Pipeline" -> PipelineNamespace(request, o)
      [] f.Kind = "ConfigMap" -> ConfigMapNamespace(request, o)
      [] f.Kind = "ServiceAccount" -> ServiceAccountNamespace(request, o)
      [] f.Kind = "RoleBinding" -> RoleBindingNamespace(request, o)
      [] f.Kind = "ClusterRole" -> o

\* Variant: a version is compared only once one has been recorded.
UpgradingOnceRecorded(request) ==
    /\ request.ObservedVersion /= ""
    /\ request.ObservedVersion /= GetOperatorVersion

\* isUpgradingNow
isUpgradingNow(request) == request.ObservedVersion /= GetOperatorVersion

(***************************************************************************)
(* Initial states: a fresh process with the bundle loaded, on a cluster    *)
(* that is empty or holds the objects this release deployed, before the    *)
(* process restarted, for an instance in namespace "kubevirt" without a    *)
(* namespace override.                                                     *)
(***************************************************************************)
Deployed(o) ==
    [WithAppLabels(o, operandName, operandComponent) EXCEPT
        !.Params = [i \in 1..Len(o.Params) |->
                      IF HasPrefix(o.Params[i].Name, "virtioContainer")
                      THEN [o.Params[i] EXCEPT !.Default = ParamValue(GetVirtioImage)]
                      ELSE o.Params[i]]]

InitialClusters(bundle) ==
    LET t == New(bundle)
        request == [NoRequest EXCEPT !.Namespace = "kubevirt"]
        fs == ReconcileFuncs(t, request)
    IN  { {},
          { Deployed(Prepare(request, fs[i], Deref(t, fs[i]))) : i \in 1..Len(fs) } }

Init ==
    /\ loaded \in Bundles
    /\ tektonPipelines = New(loaded)
    /\ cluster \in InitialClusters(loaded)
    /\ clusterBefore = [p \in Procs |-> {}]
    /\ pc = [p \in Procs |-> "idle"]
    /\ req = [p \in Procs |-> NoRequest]
    /\ reconcileFunc = [p \in Procs |-> <<>>]
    /\ idx = [p \in Procs |-> 0]
    /\ results = [p \in Procs |-> <<>>]
    /\ err = [p \in Procs |-> ""]
    /\ submitted = [p \in Procs |-> <<>>]
    /\ calls = [p \in Procs |-> NoCalls]
    /\ logged = [p \in Procs |-> <<>>]
    /\ upgradingNow = [p \in Procs |-> <<>>]
    /\ ops = 0

(***************************************************************************)
(* Reconcile.                                                              *)
(***************************************************************************)
Idle(p) == pc[p] = "idle"

CrdMissing == "Tekton CRD " \o tektonCrd \o " does not exist"

NotDeployed == [Msg |-> "Tekton Pipelines resources were not deployed", Name |-> ""]

\* Lines 74-80: what Reconcile decides before it builds any function, and
\* the number of times it has asked whether the CRD exists.
Decision(decision, crd) == [decision |-> decision, crd |-> crd]

\* Variant: the CRD is checked before the feature gate.
CrdCheckFirst(request) ==
    IF ~request.CrdExists THEN Decision("crdMissing", 1)
    ELSE IF ~request.DeployTektonTaskResources THEN Decision("notDeployed", 1)
    ELSE Decision("reconcile", 1)

\* Variant: the CRD is not checked.
NoCrdCheck(request) ==
    IF ~request.DeployTektonTaskResources THEN Decision("notDeployed", 0)
    ELSE Decision("reconcile", 0)

Precheck(request) ==
    IF ~request.DeployTektonTaskResources THEN Decision("notDeployed", 0)
    ELSE IF ~request.CrdExists THEN Decision("crdMissing", 1)
    ELSE Decision("reconcile", 1)

\* Lines 73-87: the feature gate, the CRD check and the list of functions.
ReconcileStart(p, request) ==
    /\ Idle(p)
    /\ ops < MaxOps
    /\ ops' = ops + 1
    /\ req' = [req EXCEPT ![p] = request]
    /\ clusterBefore' = [clusterBefore EXCEPT ![p] = cluster]
    /\ results' = [results EXCEPT ![p] = <<>>]
    /\ submitted' = [submitted EXCEPT ![p] = <<>>]
    /\ LET decision == Precheck(request).decision
           crd == Precheck(request).crd
       IN  /\ pc' = [pc EXCEPT ![p] = IF decision = "reconcile" THEN "collect" ELSE "done"]
           /\ err' = [err EXCEPT ![p] = IF decision = "crdMissing" THEN CrdMissing ELSE ""]
           /\ logged' = [logged EXCEPT ![p] =
                            IF decision = "notDeployed" THEN <<NotDeployed>> ELSE <<>>]
           /\ calls' = [calls EXCEPT ![p] = [NoCalls EXCEPT !.crd = crd]]
           /\ IF decision = "reconcile"
              THEN /\ reconcileFunc' = [reconcileFunc EXCEPT ![p] =
                                           ReconcileFuncs(tektonPipelines, request)]
                   /\ idx' = [idx EXCEPT ![p] = 1]
              ELSE UNCHANGED <<reconcileFunc, idx>>
    /\ UNCHANGED <<loaded, tektonPipelines, cluster, upgradingNow>>

\* Variant: the closure of the cluster roles does not ask for the labels.
UnlabelledClusterRoles(f) ==
    IF f.Kind = "ClusterRole" THEN {} ELSE AppLabels(operandName, operandComponent)

\* .WithAppLabels(operandName, operandComponent) in the closure of f
\* (lines 143, 173, 199, 213, 235).
ClosureAppLabels(f) == AppLabels(operandName, operandComponent)

\* The body of the reconcile function f: the writes to the element its
\* closure points to, then CreateOrUpdate on that element.
Invoke(c, t, request, f, outcome) ==
    LET o == Prepare(request, f, Deref(t, f))
        r == CreateOrUpdate(c, o, ClosureAppLabels(f), outcome)
    IN  [submitted |-> o, t |-> Store(t, f, r.resource), cluster |-> r.cluster,
         result |-> r.result, err |-> r.err,
         outcome |-> IF r.result = <<>> THEN "" ELSE r.result[1].OperationResult,
         get |-> r.get, create |-> r.create, update |-> r.update]

\* common.CollectResourceStatus after a reconcile function has returned r:
\* the results collected so far, the error, and whether the loop stops.
\* Variant: the loop goes on after an error.
KeepCollecting(collected, r) ==
    IF r.err /= ""
    THEN [results |-> collected, err |-> r.err, stop |-> FALSE]
    ELSE [results |-> collected \o r.result, err |-> "", stop |-> FALSE]

Collect(collected, r) ==
    IF r.err /= ""
    THEN [results |-> <<>>, err |-> r.err, stop |-> TRUE]
    ELSE [results |-> collected \o r.result, err |-> "", stop |-> FALSE]

\* Variant: the error is wrapped before it is returned.
WrappedError(next) ==
    [results |-> <<>>, err |-> "reconcile tekton pipelines: " \o next.err, stop |-> TRUE]

\* Lines 90-92: what Reconcile returns when CollectResourceStatus returned
\* an error.
ReconcileError(next) == [results |-> <<>>, err |-> next.err, stop |-> TRUE]

\* One turn of CollectResourceStatus' loop: the next reconcile function is
\* invoked; an error ends the pass with no results (lines 89-92).
CollectResourceStatus(p, outcome) ==
    /\ pc[p] = "collect"
    /\ idx[p] <= Len(reconcileFunc[p])
    /\ LET f == reconcileFunc[p][idx[p]]
           r == Invoke(cluster, tektonPipelines, req[p], f, outcome)
           collected == Collect(results[p], r)
           next == IF collected.stop THEN ReconcileError(collected) ELSE collected
       IN  /\ tektonPipelines' = r.t
           /\ cluster' = r.cluster
           /\ submitted' = [submitted EXCEPT ![p] =
                               Append(@, [Func |-> f, Object |-> r.submitted, Err |-> r.err,
                                          Result |-> r.outcome])]
           /\ calls' = [calls EXCEPT ![p].get = @ + r.get,
                                     ![p].create = @ + r.create,
                                     ![p].update = @ + r.update,
                                     ![p].failed = @ + IF r.err /= "" THEN 1 ELSE 0]
           /\ results' = [results EXCEPT ![p] = next.results]
           /\ err' = [err EXCEPT ![p] = IF next.err /= "" THEN next.err ELSE @]
           /\ pc' = [pc EXCEPT ![p] = IF next.stop THEN "done" ELSE "collect"]
           /\ idx' = [idx EXCEPT ![p] = IF next.stop THEN @ ELSE @ + 1]
    /\ UNCHANGED <<loaded, clusterBefore, req, reconcileFunc, logged, upgradingNow, ops>>

\* Variant: the line is logged during an upgrade as well.
RevertedAlways(upgrading, rs) ==
    LET updated == SelectSeq(rs, LAMBDA r : r.OperationResult = "updated")
    IN  [i \in 1..Len(updated) |->
            [Msg |-> "Changes reverted in tekton pipeline", Name |-> updated[i].Resource.Name]]

\* Lines 94-99: one "Changes reverted" line for every result that is Updated
\* while no upgrade is going on.
RECURSIVE Reverted(_, _)
Reverted(upgrading, rs) ==
    IF rs = <<>> THEN <<>>
    ELSE (IF ~upgrading /\ Head(rs).OperationResult = "updated"
          THEN <<[Msg |-> "Changes reverted in tekton pipeline",
                  Name |-> Head(rs).Resource.Name]>>
          ELSE <<>>) \o Reverted(upgrading, Tail(rs))

\* Lines 94-100.  Status.ObservedVersion is read here for the first time in
\* the pass (line 130), so its value is drawn here.
ReconcileFinish(p, observedVersion) ==
    /\ pc[p] = "collect"
    /\ idx[p] > Len(reconcileFunc[p])
    /\ req' = [req EXCEPT ![p].ObservedVersion = observedVersion]
    /\ upgradingNow' = [upgradingNow EXCEPT ![p] = <<isUpgradingNow(req'[p])>>]
    /\ logged' = [logged EXCEPT ![p] = @ \o Reverted(upgradingNow'[p][1], results[p])]
    /\ pc' = [pc EXCEPT ![p] = "done"]
    /\ UNCHANGED <<loaded, tektonPipelines, cluster, clusterBefore, reconcileFunc, idx,
                   results, err, submitted, calls, ops>>

\* The caller takes the results; the worker is free for the next operation.
Return(p) ==
    /\ pc[p] \in {"done", "cleaned"}
    /\ pc' = [pc EXCEPT ![p] = "idle"]
    /\ req' = [req EXCEPT ![p] = NoRequest]
    /\ clusterBefore' = [clusterBefore EXCEPT ![p] = {}]
    /\ reconcileFunc' = [reconcileFunc EXCEPT ![p] = <<>>]
    /\ idx' = [idx EXCEPT ![p] = 0]
    /\ results' = [results EXCEPT ![p] = <<>>]
    /\ err' = [err EXCEPT ![p] = ""]
    /\ submitted' = [submitted EXCEPT ![p] = <<>>]
    /\ calls' = [calls EXCEPT ![p] = NoCalls]
    /\ logged' = [logged EXCEPT ![p] = <<>>]
    /\ upgradingNow' = [upgradingNow EXCEPT ![p] = <<>>]
    /\ UNCHANGED <<loaded, tektonPipelines, cluster, ops>>

(***************************************************************************)
(* Cleanup.                                                                *)
(***************************************************************************)
\* Lines 104-124: deep copies of every element of the five slices.
\* Variant: the cluster roles are left out.
CleanupWithoutClusterRoles(t) ==
    t.pipelines \o t.configMaps \o t.roleBindings \o t.serviceAccounts

\* Variant: the service accounts are left out.
CleanupWithoutServiceAccounts(t) ==
    t.pipelines \o t.configMaps \o t.roleBindings \o t.clusterRoles

CleanupObjects(t) ==
    t.pipelines \o t.configMaps \o t.roleBindings \o t.serviceAccounts \o t.clusterRoles

\* common.DeleteAll: one deletion per object, each with its own result; the
\* deletions whose index is in `failing` fail at the gateway.
DeleteResult(c, o, fails) ==
    [Resource |-> o,
     Outcome |-> IF fails THEN "failed"
                 ELSE IF Found(c, Key(o)) = {} THEN "absent" ELSE "deleted"]

DeleteAll(c, objects, failing) ==
    [cluster |-> c \ {o \in c : \E i \in 1..Len(objects) :
                                    i \notin failing /\ Key(objects[i]) = Key(o)},
     results |-> [i \in 1..Len(objects) |-> DeleteResult(c, objects[i], i \in failing)]]

\* Lines 103-127.
Cleanup(p, failing) ==
    /\ Idle(p)
    /\ ops < MaxOps
    /\ ops' = ops + 1
    /\ clusterBefore' = [clusterBefore EXCEPT ![p] = cluster]
    /\ LET objects == CleanupObjects(tektonPipelines)
           r == DeleteAll(cluster, objects, failing \cap (1..Len(objects)))
       IN  /\ cluster' = r.cluster
           /\ results' = [results EXCEPT ![p] = r.results]
           /\ submitted' = [submitted EXCEPT ![p] =
                               [i \in 1..Len(objects) |->
                                   [Func |-> Func("Delete", i), Object |-> objects[i],
                                    Err |-> IF i \in failing THEN "delete failed" ELSE ""]]]
           /\ calls' = [calls EXCEPT ![p] =
                           [NoCalls EXCEPT !.delete = Len(objects),
                                           !.failed = Cardinality(failing \cap (1..Len(objects)))]]
    /\ err' = [err EXCEPT ![p] = ""]
    /\ logged' = [logged EXCEPT ![p] = <<>>]
    /\ pc' = [pc EXCEPT ![p] = "cleaned"]
    /\ UNCHANGED <<loaded, tektonPipelines, req, reconcileFunc, idx, upgradingNow>>

(***************************************************************************)
(* The environment: another actor edits a live object while no operation   *)
(* is in progress.  (An edit during a pass touches one object, and every   *)
(* reconcile function reads and writes one object: the edit has the effect *)
(* of one made before or after the pass.)                                  *)
(***************************************************************************)
\* An edit replaces the body of the object and drops its labels, or changes
\* the defaults of its parameters.
Edits(o) ==
    {[o EXCEPT !.Data = "edited", !.Labels = {}]}
    \cup {[o EXCEPT !.Params = [i \in 1..Len(o.Params) |->
                                  [o.Params[i] EXCEPT !.Default = ParamValue("edited")]]]}

Drift(o, e) ==
    /\ \A p \in Procs : Idle(p)
    /\ ops < MaxOps
    /\ o \in cluster
    /\ e \in Edits(o)
    /\ e /= o
    /\ cluster' = Put(cluster, e)
    /\ ops' = ops + 1
    /\ UNCHANGED <<loaded, tektonPipelines, clusterBefore, pc, req, reconcileFunc, idx,
                   results, err, submitted, calls, logged, upgradingNow>>

(***************************************************************************)
(* Specification: one worker, as the controller runs one pass at a time.   *)
(***************************************************************************)
\* The deletions that fail in a Cleanup: none, any one of them, or all.
FailingSets ==
    LET all == 1..Len(CleanupObjects(tektonPipelines))
    IN  {{}, all} \cup {{i} : i \in all}

Worker(p) ==
    \/ \E request \in Requests : ReconcileStart(p, request)
    \/ \E outcome \in GatewayOutcomes : CollectResourceStatus(p, outcome)
    \/ \E observedVersion \in ObservedVersions : ReconcileFinish(p, observedVersion)
    \/ \E failing \in FailingSets : Cleanup(p, failing)
    \/ Return(p)

Environment == \E o \in cluster : \E e \in Edits(o) : Drift(o, e)

Next == Worker("w1") \/ Environment

Spec == Init /\ [][Next]_vars

(***************************************************************************)
(* Specification: two workers on the same operand, as when two watch       *)
(* events are served at once, on a cluster that starts empty; every pass   *)
(* gets past lines 74-80 and meets no gateway failure.  A reconcile        *)
(* function is one step here, so the passes interleave between reconcile   *)
(* functions: of the behaviours the unsynchronised writes of lines 139,    *)
(* 169, 195, 227 and 231 allow, these are the ones in which no two         *)
(* functions overlap.                                                      *)
(***************************************************************************)
InitEmpty == Init /\ cluster = {}

\* The requests that get past lines 74-80.
PassRequests == {r \in Requests : r.DeployTektonTaskResources /\ r.CrdExists}

Pass(p) ==
    \/ \E request \in PassRequests : ReconcileStart(p, request)
    \/ CollectResourceStatus(p, "ok")
    \/ \E observedVersion \in ObservedVersions : ReconcileFinish(p, observedVersion)
    \/ Return(p)

\* Each worker serves one event: one pass, with the recorded version that
\* of the running operator.
ConcurrentPass(p) ==
    \/ \E request \in PassRequests : ReconcileStart(p, request)
    \/ CollectResourceStatus(p, "ok")
    \/ ReconcileFinish(p, GetOperatorVersion)

NextConcurrent == \E p \in Procs : ConcurrentPass(p)

SpecConcurrent == InitEmpty /\ [][NextConcurrent]_vars

(***************************************************************************)
(* Specification: one worker on a cluster that starts empty, every pass    *)
(* gets past lines 74-80 and meets no gateway failure, and the operator    *)
(* process may be restarted between operations.  A new process loads the   *)
(* bundle again and builds its operand from it (New).                      *)
(***************************************************************************)
Restart ==
    /\ \A p \in Procs : Idle(p)
    /\ tektonPipelines' = New(loaded)
    /\ UNCHANGED <<loaded, cluster, clusterBefore, pc, req, reconcileFunc, idx, results, err,
                   submitted, calls, logged, upgradingNow, ops>>

NextRestart ==
    \/ Pass("w1")
    \/ \E failing \in FailingSets : Cleanup("w1", failing)
    \/ Restart

SpecRestart == InitEmpty /\ [][NextRestart]_vars

(***************************************************************************)
(* Properties.                                                             *)
(***************************************************************************)
Changed(c, d) == (c \ d) \cup (d \ c)

Finished(p) == pc[p] = "done"

Succeeded(p) ==
    /\ Finished(p)
    /\ err[p] = ""
    /\ req[p].DeployTektonTaskResources

SubmittedKeys(p, n) == {Key(submitted[p][i].Object) : i \in 1..n}

\* C1: fail-fast.  In a pass, a reconcile function that returned an error is
\* the last one invoked: the functions invoked are a prefix of the list, none
\* follows the failing one, and the cluster differs from the cluster at the
\* start of the pass only in objects of the functions before the failing one.
C1_FailFast ==
    \A p \in Procs :
        pc[p] \in {"collect", "done"} =>
            LET n == Len(submitted[p])
            IN  /\ n <= Len(reconcileFunc[p])
                /\ \A i \in 1..n :
                      /\ submitted[p][i].Func = reconcileFunc[p][i]
                      /\ submitted[p][i].Err /= "" => i = n
                /\ calls[p].get = n
                /\ (n > 0 /\ submitted[p][n].Err /= "") =>
                      /\ Finished(p)
                      /\ err[p] = submitted[p][n].Err
                      /\ \A o \in Changed(cluster, clusterBefore[p]) :
                            Key(o) \in SubmittedKeys(p, n - 1)

C1_Witness ==
    \E p \in Procs :
        /\ Finished(p)
        /\ Len(submitted[p]) = 3
        /\ submitted[p][3].Err = "write failed"
        /\ Len(reconcileFunc[p]) = 5
        /\ Changed(cluster, clusterBefore[p]) /= {}

\* C3: with the feature gate false a pass makes no gateway call, invokes no
\* function, changes nothing in the cluster and returns no result and no
\* error, whether or not the CRD exists.
C3_FeatureGateNoOp ==
    \A p \in Procs :
        (Finished(p) /\ ~req[p].DeployTektonTaskResources) =>
            /\ calls[p] = NoCalls
            /\ submitted[p] = <<>>
            /\ results[p] = <<>>
            /\ err[p] = ""
            /\ cluster = clusterBefore[p]

C3_Witness ==
    \E p \in Procs :
        /\ Finished(p)
        /\ ~req[p].DeployTektonTaskResources
        /\ ~req[p].CrdExists
        /\ cluster /= {}

\* C5: with the feature gate true and the CRD absent a pass returns an error
\* and no result, invokes no reconcile function and changes nothing in the
\* cluster.
C5_CrdMissing ==
    \A p \in Procs :
        (req[p].DeployTektonTaskResources /\ ~req[p].CrdExists) =>
            /\ Finished(p)
            /\ err[p] /= ""
            /\ results[p] = <<>>
            /\ submitted[p] = <<>>
            /\ calls[p].get + calls[p].create + calls[p].update = 0
            /\ cluster = clusterBefore[p]

C5_Witness ==
    \E p \in Procs :
        /\ Finished(p)
        /\ req[p].DeployTektonTaskResources
        /\ ~req[p].CrdExists
        /\ err[p] = CrdMissing

InPass(p) ==
    /\ pc[p] \in {"collect", "done"}
    /\ req[p].DeployTektonTaskResources
    /\ req[p].CrdExists

Range(f) == {f[i] : i \in DOMAIN f}

Count(f, Test(_)) == Cardinality({i \in DOMAIN f : Test(f[i])})

\* The desired state of a submitted object, as a live object:
\* the object with the application labels, and for a pipeline with the
\* default of every virtioContainer* parameter set to the virtio image.
VirtioDefaults(params) ==
    [i \in 1..Len(params) |->
        [Name |-> params[i].Name,
         Default |-> IF HasPrefix(params[i].Name, "virtioContainer")
                     THEN [Type |-> "string", StringVal |-> GetVirtioImage]
                     ELSE params[i].Default]]

Desired(o) ==
    [o EXCEPT !.Labels = AppLabels(operandName, operandComponent),
              !.Params = VirtioDefaults(o.Params)]

Matches(p) ==
    \A i \in 1..Len(submitted[p]) : Desired(submitted[p][i].Object) \in clusterBefore[p]

\* C2: idempotence.  A pass that succeeds on a cluster that already holds the
\* desired state of every object it submits reports Unchanged for each of
\* them, issues no create and no update, leaves the cluster as it was, and
\* leaves the operand such that the same request submits the same desired
\* objects again (so the same holds for the pass after it).
C2_Idempotent ==
    \A p \in Procs :
        (Succeeded(p) /\ Matches(p)) =>
            /\ Len(results[p]) = Len(reconcileFunc[p])
            /\ \A i \in 1..Len(results[p]) : results[p][i].OperationResult = "unchanged"
            /\ calls[p].create = 0
            /\ calls[p].update = 0
            /\ cluster = clusterBefore[p]
            /\ \A i \in 1..Len(reconcileFunc[p]) :
                  Desired(Prepare(req[p], reconcileFunc[p][i],
                                  Deref(tektonPipelines, reconcileFunc[p][i])))
                      = Desired(submitted[p][i].Object)

C2_Witness ==
    \E p \in Procs :
        /\ Succeeded(p)
        /\ Matches(p)
        /\ Len(results[p]) = 5
        /\ \E i \in 1..5 :
              /\ submitted[p][i].Func.Kind = "Pipeline"
              /\ submitted[p][i].Object.Params[1].Default.StringVal = "static-image"
              /\ results[p][i].Resource.Params[1].Default.StringVal = GetVirtioImage

\* C4 (as claimed): the namespace of every object of the bundle and of every
\* role-binding subject is, in every state, the one the bundle was loaded with.
LoadedNamespaces(t, bundle) ==
    \A s \in DOMAIN t :
        \A i \in 1..Len(t[s]) :
            /\ t[s][i].Namespace = New(bundle)[s][i].Namespace
            /\ \A j \in 1..Len(t[s][i].Subjects) :
                  t[s][i].Subjects[j].Namespace = New(bundle)[s][i].Subjects[j].Namespace

C4_BundleNamespacesUnchanged == LoadedNamespaces(tektonPipelines, loaded)

\* C6: in a pass, the service account i has a reconcile function exactly when
\* it is not the case that an override is set, the override does not match
\* ^(openshift|kube)-, and the account is named "pipeline"; a skipped account
\* is never submitted, and a pass that succeeds returns one result for every
\* account that is not skipped and none for a skipped one.
SkipRule(request, sa) ==
    /\ request.TektonPipelines /= <<>>
    /\ request.TektonPipelines[1].Namespace /= ""
    /\ ~namespaceRegexMatchString(request.TektonPipelines[1].Namespace)
    /\ sa.Name = "pipeline"

C6_ServiceAccountSkipRule ==
    \A p \in Procs :
        InPass(p) =>
            \A i \in 1..Len(loaded.ServiceAccounts) :
                LET sa == loaded.ServiceAccounts[i]
                    f == Func("ServiceAccount", i)
                    IsSa(r) == r.Resource.Kind = "ServiceAccount" /\ r.Resource.Name = sa.Name
                    IsF(e) == e.Func = f
                IN  /\ SkipRule(req[p], sa) <=> f \notin Range(reconcileFunc[p])
                    /\ SkipRule(req[p], sa) => Count(submitted[p], IsF) = 0
                    /\ Succeeded(p) =>
                          /\ Count(results[p], IsSa) = IF SkipRule(req[p], sa) THEN 0 ELSE 1
                          /\ Count(submitted[p], IsF) = IF SkipRule(req[p], sa) THEN 0 ELSE 1

C6_Witness ==
    \E p \in Procs :
        /\ Succeeded(p)
        /\ req[p].TektonPipelines = <<[Namespace |-> "myapp"]>>
        /\ loaded.ServiceAccounts[1].Name = "pipeline"
        /\ Len(results[p]) = 4

\* C7: in a pass with a non-empty override, every pipeline and every
\* configuration object is submitted in the override namespace, and every
\* subject of every role binding submitted has the request's primary
\* namespace.
C7_OverridePropagation ==
    \A p \in Procs :
        (InPass(p) /\ HasOverride(req[p])) =>
            \A i \in 1..Len(submitted[p]) :
                LET e == submitted[p][i]
                IN  /\ e.Func.Kind \in {"Pipeline", "ConfigMap"} =>
                          e.Object.Namespace = req[p].TektonPipelines[1].Namespace
                    /\ e.Func.Kind = "RoleBinding" =>
                          \A j \in 1..Len(e.Object.Subjects) :
                              e.Object.Subjects[j].Namespace = req[p].Namespace

C7_Witness ==
    \E p \in Procs :
        /\ Succeeded(p)
        /\ req[p].TektonPipelines = <<[Namespace |-> "openshift-myapp"]>>
        /\ Len(submitted[p]) = 5
        /\ submitted[p][2].Object.Namespace = "openshift-myapp"
        /\ loaded.Pipelines[1].Namespace = "p-ns"
        /\ loaded.RoleBindings[1].Subjects[1].Namespace = "subj-ns"
        /\ submitted[p][4].Object.Subjects[1].Namespace = "ssp-b"

\* C8 (as claimed): in every pass every role binding is submitted with every
\* subject in the primary namespace of the request of that pass, and in the
\* namespace the bundle gives it, or in that primary namespace when the
\* bundle gives none.
C8_RoleBindingPolicy ==
    \A p \in Procs :
        InPass(p) =>
            \A i \in 1..Len(submitted[p]) :
                LET e == submitted[p][i]
                    given == loaded.RoleBindings[e.Func.i].Namespace
                IN  e.Func.Kind = "RoleBinding" =>
                        /\ \A j \in 1..Len(e.Object.Subjects) :
                              e.Object.Subjects[j].Namespace = req[p].Namespace
                        /\ e.Object.Namespace = IF given /= "" THEN given ELSE req[p].Namespace

\* C9: Cleanup attempts one deletion for every object of the bundle whatever
\* the other deletions do, and returns one result per object: the results
\* that report a failure are those of the deletions that failed, and every
\* other object is absent from the cluster afterwards.
BundleObjects ==
    loaded.Pipelines \o loaded.ConfigMaps \o loaded.RoleBindings
        \o loaded.ServiceAccounts \o loaded.ClusterRoles

C9_CleanupBestEffort ==
    \A p \in Procs :
        pc[p] = "cleaned" =>
            LET n == Len(BundleObjects)
                Failure(r) == r.Outcome = "failed"
            IN  /\ Len(results[p]) = n
                /\ Len(submitted[p]) = n
                /\ calls[p].delete = n
                /\ err[p] = ""
                /\ \A o \in Range(BundleObjects) :
                      \E i \in 1..Len(submitted[p]) :
                          /\ submitted[p][i].Object.Kind = o.Kind
                          /\ submitted[p][i].Object.Name = o.Name
                /\ Count(results[p], Failure) = calls[p].failed
                /\ \A i \in 1..Len(results[p]) :
                      /\ results[p][i].Resource = submitted[p][i].Object
                      /\ Failure(results[p][i]) <=> submitted[p][i].Err /= ""
                      /\ ~Failure(results[p][i]) =>
                            Found(cluster, Key(results[p][i].Resource)) = {}

C9_Witness ==
    \E p \in Procs :
        /\ pc[p] = "cleaned"
        /\ Len(results[p]) = 5
        /\ calls[p].failed = 1
        /\ results[p][2].Outcome = "failed"
        /\ \A i \in {1, 3, 4, 5} : results[p][i].Outcome = "deleted"

\* C10: the live pipeline a pass reports as Updated has the body of the
\* bundle's pipeline, except that the default of every parameter whose name
\* starts with "virtioContainer" is the virtio image as a string value.
C10_VirtioDefaultPreserved ==
    \A p \in Procs :
        InPass(p) =>
            \A i \in 1..Len(results[p]) :
                LET live == results[p][i].Resource
                    bundled == loaded.Pipelines[submitted[p][i].Func.i]
                IN  (live.Kind = "Pipeline" /\ results[p][i].OperationResult = "updated") =>
                        /\ live \in cluster
                        /\ live.Data = bundled.Data
                        /\ Len(live.Params) = Len(bundled.Params)
                        /\ \A j \in 1..Len(bundled.Params) :
                              /\ live.Params[j].Name = bundled.Params[j].Name
                              /\ live.Params[j].Default =
                                    IF HasPrefix(bundled.Params[j].Name, "virtioContainer")
                                    THEN [Type |-> "string", StringVal |-> GetVirtioImage]
                                    ELSE bundled.Params[j].Default

C10_Witness ==
    \E p \in Procs :
        /\ Succeeded(p)
        /\ \E i \in 1..Len(results[p]) :
              /\ results[p][i].Resource.Kind = "Pipeline"
              /\ results[p][i].OperationResult = "updated"
              /\ \E o \in clusterBefore[p] :
                    /\ Key(o) = Key(results[p][i].Resource)
                    /\ o.Params[1].Default.StringVal = "edited"
                    /\ o.Params[2].Default.StringVal = "edited"
              /\ loaded.Pipelines[1].Params[1].Default.StringVal = "static-image"

\* C11: the upgrade detector.  Whenever Reconcile has computed upgradingNow,
\* it is true if the recorded version is empty or differs from the running
\* version and false if the two are equal; the pass that computed it has no
\* error, and computing it issued no gateway call and dropped no result.
C11_UpgradeDetector ==
    \A p \in Procs :
        upgradingNow[p] /= <<>> =>
            LET recorded == req[p].ObservedVersion
                running == GetOperatorVersion
            IN  /\ (recorded = "" \/ recorded /= running) => upgradingNow[p] = <<TRUE>>
                /\ recorded = running => upgradingNow[p] = <<FALSE>>
                /\ err[p] = ""
                /\ calls[p].get = Len(submitted[p])
                /\ Len(results[p]) = Len(submitted[p])

C11_Witness ==
    \E p \in Procs :
        /\ Finished(p)
        /\ req[p].ObservedVersion = ""
        /\ upgradingNow[p] = <<TRUE>>
        /\ Len(results[p]) = 5

\* C12: Cleanup issues exactly one deletion for every object of the five
\* kinds of the bundle, whether or not a pass reconciled it, and the deletion
\* of an object that was absent is reported as a success: its result is not
\* a failure and Cleanup returns no error.
C12_CleanupCoverage ==
    \A p \in Procs :
        pc[p] = "cleaned" =>
            /\ calls[p].delete = Len(loaded.Pipelines) + Len(loaded.ConfigMaps)
                                    + Len(loaded.RoleBindings) + Len(loaded.ServiceAccounts)
                                    + Len(loaded.ClusterRoles)
            /\ \A o \in Range(BundleObjects) :
                  LET DeletionOf(e) == e.Object.Kind = o.Kind /\ e.Object.Name = o.Name
                  IN  Count(submitted[p], DeletionOf) = 1
            /\ \A i \in 1..Len(submitted[p]) :
                  (/\ Found(clusterBefore[p], Key(submitted[p][i].Object)) = {}
                   /\ submitted[p][i].Err = "") =>
                      /\ i \in DOMAIN results[p]
                      /\ results[p][i].Outcome = "absent"
            /\ err[p] = ""

C12_Witness ==
    \E p \in Procs :
        /\ pc[p] = "cleaned"
        /\ loaded.ServiceAccounts[1].Name = "pipeline"
        /\ \E o \in clusterBefore[p] : o.Kind = "Pipeline" /\ o.Namespace = "myapp"
        /\ \A o \in clusterBefore[p] : o.Kind /= "ServiceAccount"
        /\ calls[p].failed = 0
        /\ results[p][4].Resource.Kind = "ServiceAccount"
        /\ results[p][4].Outcome = "absent"
        /\ results[p][1].Outcome = "deleted"

\* The namespace of an object and of its subjects that follow from a request
\* and from the object as the bundle was loaded with it.
OwnNamespace(request, o) ==
    IF o.Kind \in {"Pipeline", "ConfigMap"}
    THEN IF request.TektonPipelines /= <<>> /\ request.TektonPipelines[1].Namespace /= ""
         THEN request.TektonPipelines[1].Namespace
         ELSE o.Namespace
    ELSE IF o.Kind \in {"ServiceAccount", "RoleBinding"} /\ o.Namespace = ""
    THEN request.Namespace
    ELSE o.Namespace

AsLoaded(f) == New(loaded)[Slice(f.Kind)][f.i]

FromOwnRequest(p, e) ==
    /\ e.Object.Namespace = OwnNamespace(req[p], AsLoaded(e.Func))
    /\ \A j \in 1..Len(e.Object.Subjects) :
          e.Object.Subjects[j].Namespace = req[p].Namespace

\* C13 (as claimed): while two passes are in progress on the same operand,
\* every object either of them submits has the namespace, and every subject
\* the namespace, that follow from the request of the pass that submits it
\* and from the bundle as loaded.
C13_ConcurrentPassesIndependent ==
    \A p \in Procs :
        \A q \in Procs \ {p} :
            (InPass(p) /\ InPass(q)) =>
                \A i \in 1..Len(submitted[p]) : FromOwnRequest(p, submitted[p][i])

\* C14 (as claimed): on a cluster that was empty before the first pass, once
\* a Cleanup in which every deletion succeeded has returned, the cluster is
\* empty again: nothing a pass created is left.
C14_CleanupLeavesNothing ==
    \A p \in Procs :
        (pc[p] = "cleaned" /\ calls[p].failed = 0) => cluster = {}

\* C15 (as claimed): in every pass, each object is submitted in the namespace
\* that follows from the request of that pass and the bundle as loaded,
\* whatever the earlier passes were: a pipeline or configuration object in
\* the override if one is set and else in its bundle namespace, a service
\* account or role binding in its bundle namespace if it has one and else in
\* the primary namespace of the request.
C15_PassDependsOnOwnRequest ==
    \A p \in Procs :
        InPass(p) =>
            \A i \in 1..Len(submitted[p]) :
                submitted[p][i].Object.Namespace
                    = OwnNamespace(req[p], AsLoaded(submitted[p][i].Func))

\* C16: a pass that succeeds returns one result, Created, Updated or
\* Unchanged, for every object of the bundle that is not a skipped service
\* account, and none for a skipped one: as many results as there are cluster
\* roles, pipelines, configuration objects, role bindings and service
\* accounts that are not skipped.
Skipped(request, o) == o.Kind = "ServiceAccount" /\ SkipRule(request, o)

C16_ResultAccounting ==
    \A p \in Procs :
        Succeeded(p) =>
            LET NotSkipped(o) == ~Skipped(req[p], o)
            IN  /\ Len(results[p]) =
                      Len(loaded.ClusterRoles) + Len(loaded.Pipelines)
                        + Len(loaded.ConfigMaps) + Len(loaded.RoleBindings)
                        + Count(loaded.ServiceAccounts, NotSkipped)
                /\ \A i \in 1..Len(results[p]) :
                      results[p][i].OperationResult \in {"created", "updated", "unchanged"}
                /\ \A o \in Range(BundleObjects) :
                      LET ResultOf(r) == r.Resource.Kind = o.Kind /\ r.Resource.Name = o.Name
                      IN  Count(results[p], ResultOf) = IF Skipped(req[p], o) THEN 0 ELSE 1

C16_Witness ==
    \E p \in Procs :
        /\ Succeeded(p)
        /\ Len(results[p]) = 5
        /\ \E i \in 1..5 : results[p][i].OperationResult = "updated"
        /\ \E i \in 1..5 : results[p][i].OperationResult = "unchanged"
        /\ req[p].TektonPipelines = <<[Namespace |-> ""]>>

\* C17: a pass that ends with the error of a reconcile function returns that
\* error as the function returned it and no result, has invoked no function
\* twice and issued at most one write per function invoked, and has logged
\* no "Changes reverted" line.
C17_ErrorPropagation ==
    \A p \in Procs :
        (Finished(p) /\ InPass(p) /\ err[p] /= "") =>
            LET n == Len(submitted[p])
            IN  /\ n >= 1
                /\ err[p] = submitted[p][n].Err
                /\ results[p] = <<>>
                /\ \A i, j \in 1..n : submitted[p][i].Func = submitted[p][j].Func => i = j
                /\ calls[p].get = n
                /\ calls[p].create + calls[p].update <= n
                /\ calls[p].failed = 1
                /\ logged[p] = <<>>
                /\ upgradingNow[p] = <<>>

C17_Witness ==
    \E p \in Procs :
        /\ Finished(p)
        /\ err[p] = "get failed"
        /\ Len(submitted[p]) = 4
        /\ results[p] = <<>>
        /\ calls[p].create + calls[p].update = 3
        /\ \E o \in clusterBefore[p] : o.Data = "edited"

\* C18: when every reconcile function of a pass has succeeded, the pass has
\* logged one "Changes reverted" line for each result that is Updated if the
\* recorded version equals the running version, and none otherwise; the
\* results returned are the ones the functions returned, no gateway call
\* was issued beyond the one get and at most one write of each function, and
\* the pass returns no error.
Collected(p) ==
    /\ Finished(p)
    /\ InPass(p)
    /\ idx[p] > Len(reconcileFunc[p])

C18_UnexpectedRevert ==
    \A p \in Procs :
        Collected(p) =>
            LET IsUpdated(r) == r.OperationResult = "updated"
                IsWrite(r) == r.OperationResult /= "unchanged"
                updated == SelectSeq(results[p], IsUpdated)
            IN  /\ logged[p] =
                      IF req[p].ObservedVersion = GetOperatorVersion
                      THEN [i \in 1..Len(updated) |->
                              [Msg |-> "Changes reverted in tekton pipeline",
                               Name |-> updated[i].Resource.Name]]
                      ELSE <<>>
                /\ Len(results[p]) = Len(submitted[p])
                /\ \A i \in 1..Len(results[p]) :
                      /\ results[p][i].OperationResult = submitted[p][i].Result
                      /\ Key(results[p][i].Resource) = Key(submitted[p][i].Object)
                /\ calls[p].get = Len(submitted[p])
                /\ calls[p].create + calls[p].update = Count(results[p], IsWrite)
                /\ calls[p].failed = 0
                /\ err[p] = ""

C18_Witness ==
    \E p \in Procs :
        /\ Collected(p)
        /\ req[p].ObservedVersion = "1.3.0"
        /\ Len(results[p]) = 5
        /\ results[p][1].OperationResult = "updated"
        /\ results[p][2].OperationResult = "unchanged"
        /\ logged[p] = <<[Msg |-> "Changes reverted in tekton pipeline",
                           Name |-> "pipeline-role"]>>

\* C19: in a pass the reconcile functions are invoked in the order cluster
\* roles, pipelines, configuration objects, role bindings, service accounts;
\* when a role binding is submitted, whether or not that succeeds, every
\* cluster role of the bundle has been reconciled without error earlier in
\* the pass and is in the cluster.
Position(kind) ==
    CASE kind = "ClusterRole" -> 1
      [] kind = "Pipeline" -> 2
      [] kind = "ConfigMap" -> 3
      [] kind = "RoleBinding" -> 4
      [] kind = "ServiceAccount" -> 5

C19_DependencyOrder ==
    \A p \in Procs :
        InPass(p) =>
            LET n == Len(submitted[p])
            IN  /\ \A i, j \in 1..n :
                      i < j => Position(submitted[p][i].Func.Kind)
                                  <= Position(submitted[p][j].Func.Kind)
                /\ \A i \in 1..n :
                      submitted[p][i].Func.Kind = "RoleBinding" =>
                          \A k \in 1..Len(loaded.ClusterRoles) :
                              /\ \E j \in 1..(i - 1) :
                                    /\ submitted[p][j].Func = [Kind |-> "ClusterRole", i |-> k]
                                    /\ submitted[p][j].Err = ""
                                    /\ submitted[p][j].Result /= ""
                              /\ \E o \in cluster :
                                    /\ o.Kind = "ClusterRole"
                                    /\ o.Name = loaded.ClusterRoles[k].Name

C19_Witness ==
    \E p \in Procs :
        /\ Finished(p)
        /\ InPass(p)
        /\ Len(submitted[p]) = 4
        /\ submitted[p][4].Func.Kind = "RoleBinding"
        /\ submitted[p][4].Err = "write failed"
        /\ submitted[p][1].Result = "created"
        /\ \E o \in cluster : o.Kind = "ClusterRole"
        /\ \A o \in cluster : o.Kind /= "RoleBinding"

\* C20: every object a reconcile function reports as Created or Updated, of
\* whatever kind, is in the cluster with the tekton-pipelines application
\* labels; and in every state an object of the cluster that lacks them is
\* one another actor has written since.
Managed(o) ==
    { <<"app.kubernetes.io/name", "tekton-pipelines">>,
      <<"app.kubernetes.io/component", operandComponent>>,
      <<"app.kubernetes.io/managed-by", "ssp-operator">> } \subseteq o.Labels

C20_OwnershipLabels ==
    /\ \A p \in Procs :
          InPass(p) =>
              \A i \in 1..Len(submitted[p]) :
                  LET e == submitted[p][i]
                  IN  e.Result \in {"created", "updated"} =>
                          \E o \in cluster :
                              /\ o.Kind = e.Func.Kind
                              /\ o.Name = e.Object.Name
                              /\ o.Namespace = e.Object.Namespace
                              /\ Managed(o)
    /\ \A o \in cluster : ~Managed(o) => o.Data = "edited"

C20_Witness ==
    \E p \in Procs :
        /\ Succeeded(p)
        /\ Len(results[p]) = 5
        /\ results[p][1].Resource.Kind = "ClusterRole"
        /\ results[p][1].OperationResult = "updated"
        /\ \E o \in clusterBefore[p] : o.Kind = "ClusterRole" /\ o.Labels = {}
        /\ \E i \in 2..5 : results[p][i].OperationResult = "created"
        /\ \A o \in cluster : Managed(o)

====
